---- MODULE Spec2Model ----
(***************************************************************************)
(* A model of mos_udp_log_catcher: the record parser (parseLine), the      *)
(* per-device file manager (FileManager.WriteLine, deviceInfo.Open), the   *)
(* receive loop (UDPLog) and the file system calls they make.  Text is modelled by strings, paths by *)
(* the strings the templates render, unsigned 64-bit numbers by canonical  *)
(* decimal strings and float64 arithmetic by exact big-number arithmetic.  *)
(***************************************************************************)
EXTENDS Integers, Sequences, FiniteSets, TLC

VARIABLES
  devices,   \* FileManager.devices: DeviceIDSafe -> deviceInfo
  fds,       \* every os.File the manager ever opened: <<[name, open]>>
  files,     \* regular files on disk: clean path -> sequence of writes
  links,     \* symbolic links on disk: clean path -> target
  dirs,      \* directories on disk: set of clean paths
  removed,   \* paths the manager passed to os.Remove
  mu,        \* FileManager.mu: the caller holding it, or NoCaller
  pc,        \* per caller: position inside processLine / WriteLine
  cur,       \* per caller: the call it is executing (index into calls)
  wpos,      \* per caller: next node of recordTmpl to execute
  calls,     \* history of processLine calls: <<[li, opened, dropped, ...]>>
  faults,    \* number of failed system calls so far
  clock,     \* time.Now()
  line,      \* parser harness: the raw line handed to parseLine
  ts,        \* parser harness: the receive timestamp
  parsed,    \* parser harness: what parseLine returned
  phase,     \* UDPLog: "boot", "serving", "failed" (startup error), "stopped"
  format,    \* the value of --file-format
  pkts,      \* the datagrams ReadFromUDP returned so far
  buf,       \* the unread bytes of the current datagram
  handed     \* the lines handed to processLine: <<[pkt, line, err]>>

vars == <<devices, fds, files, links, dirs, removed, mu, pc, cur, wpos,
          calls, faults, clock, line, ts, parsed, phase, format, pkts, buf,
          handed>>
fmVars == <<devices, fds, files, links, dirs, removed, mu, pc, cur, wpos,
            calls, faults, clock>>
loopVars == <<phase, format, pkts, buf, handed>>
parseVars == <<line, ts, parsed, loopVars>>

(***************************************************************************)
(* Bounds of the model.                                                    *)
(***************************************************************************)
NumCallers == 2
MaxCalls == 3
MaxFaults == 1

Callers == 1..NumCallers
NoCaller == 0
NilFd == 0

(***************************************************************************)
(* Strings.                                                                *)
(***************************************************************************)
At(s, i) == SubSeq(s, i, i)

RECURSIVE IndexFrom(_, _, _)
\* index of the first occurrence of the one-byte string c in s at or after i, 0 if none
IndexFrom(s, c, i) ==
  IF i > Len(s) THEN 0
  ELSE IF At(s, i) = c THEN i
  ELSE IndexFrom(s, c, i + 1)

Index(s, c) == IndexFrom(s, c, 1)

RECURSIVE Split(_, _)
\* bytes.Split(s, sep) for a one-byte separator
Split(s, sep) ==
  LET i == Index(s, sep) IN
  IF i = 0 THEN <<s>>
  ELSE <<SubSeq(s, 1, i - 1)>> \o Split(SubSeq(s, i + 1, Len(s)), sep)

RECURSIVE Join(_, _)
Join(parts, sep) ==
  IF Len(parts) = 0 THEN ""
  ELSE IF Len(parts) = 1 THEN parts[1]
  ELSE parts[1] \o sep \o Join(Tail(parts), sep)

RECURSIVE FindSub(_, _, _)
\* index of the first occurrence of sub in s at or after i, 0 if none
FindSub(s, sub, i) ==
  IF i + Len(sub) - 1 > Len(s) THEN 0
  ELSE IF SubSeq(s, i, i + Len(sub) - 1) = sub THEN i
  ELSE FindSub(s, sub, i + 1)

RECURSIVE LastIndex(_, _)
LastIndex(s, c) ==
  IF Len(s) = 0 THEN 0
  ELSE IF At(s, Len(s)) = c THEN Len(s)
  ELSE LastIndex(SubSeq(s, 1, Len(s) - 1), c)

(***************************************************************************)
(* path/filepath on a Unix build.                                          *)
(***************************************************************************)
RECURSIVE CleanParts(_, _, _)
\* the element stack of filepath.Clean: "" and "." are dropped, ".." pops
\* a preceding real element, is dropped at the root and kept otherwise
CleanParts(parts, rooted, acc) ==
  IF Len(parts) = 0 THEN acc
  ELSE LET e == Head(parts)
           rest == Tail(parts)
       IN IF e = "" \/ e = "." THEN CleanParts(rest, rooted, acc)
          ELSE IF e = ".."
            THEN IF Len(acc) > 0 /\ acc[Len(acc)] # ".."
                   THEN CleanParts(rest, rooted, SubSeq(acc, 1, Len(acc) - 1))
                 ELSE IF rooted THEN CleanParts(rest, rooted, acc)
                 ELSE CleanParts(rest, rooted, Append(acc, e))
          ELSE CleanParts(rest, rooted, Append(acc, e))

Clean(path) ==
  LET rooted == Len(path) > 0 /\ At(path, 1) = "/"
      body == Join(CleanParts(Split(path, "/"), rooted, <<>>), "/")
  IN IF rooted THEN "/" \o body
     ELSE IF body = "" THEN "."
     ELSE body

\* filepath.Dir
Dir(path) == Clean(SubSeq(path, 1, LastIndex(path, "/")))

RECURSIVE TrimSlashes(_)
TrimSlashes(path) ==
  IF Len(path) > 0 /\ At(path, Len(path)) = "/"
    THEN TrimSlashes(SubSeq(path, 1, Len(path) - 1))
  ELSE path

\* filepath.Base
Base(path) ==
  IF path = "" THEN "."
  ELSE LET p == TrimSlashes(path) IN
       IF p = "" THEN "/"
       ELSE SubSeq(p, LastIndex(p, "/") + 1, Len(p))

\* filepath.Join of three elements
PathJoin(a, b, c) ==
  Clean(Join(SelectSeq(<<a, b, c>>, LAMBDA e : e # ""), "/"))

\* whether clean path p is root itself or lies beneath the clean path root
Beneath(p, root) ==
  /\ Len(p) > Len(root)
  /\ SubSeq(p, 1, Len(root) + 1) = root \o "/"

(***************************************************************************)
(* text/template, as far as the program uses it: text and {{.Field}}.      *)
(***************************************************************************)
TextNode(s) == [kind |-> "text", val |-> s]
FieldNode(s) == [kind |-> "field", val |-> s]

RECURSIVE TmplNodes(_)
\* the node list of template.Parse; <<[kind |-> "error"]>> marks a syntax error
TmplNodes(s) ==
  LET open == FindSub(s, "{{", 1) IN
  IF open = 0 THEN (IF s = "" THEN <<>> ELSE <<TextNode(s)>>)
  ELSE LET close == FindSub(s, "}}", open + 2)
           before == IF open = 1 THEN <<>> ELSE <<TextNode(SubSeq(s, 1, open - 1))>>
       IN IF close = 0 \/ close < open + 4 \/ At(s, open + 2) # "."
            THEN before \o <<[kind |-> "error", val |-> ""]>>
          ELSE before \o <<FieldNode(SubSeq(s, open + 3, close - 1))>>
                      \o TmplNodes(SubSeq(s, close + 2, Len(s)))

TmplOk(nodes) == \A i \in 1..Len(nodes) : nodes[i].kind # "error"

\* what executing one node writes: [ok, out]; a field LineInfo lacks is an error
ExecNode(node, li) ==
  IF node.kind = "text" THEN [ok |-> TRUE, out |-> node.val]
  ELSE IF node.val \in DOMAIN li THEN [ok |-> TRUE, out |-> li[node.val]]
  ELSE [ok |-> FALSE, out |-> ""]

RECURSIVE ExecNodes(_, _)
ExecNodes(nodes, li) ==
  IF Len(nodes) = 0 THEN [ok |-> TRUE, out |-> ""]
  ELSE LET h == ExecNode(Head(nodes), li) IN
       IF ~h.ok THEN h
       ELSE LET r == ExecNodes(Tail(nodes), li) IN
            [ok |-> r.ok, out |-> h.out \o r.out]

\* execTmpl: the rendered text, or an error
execTmpl(t, li) == ExecNodes(t, li)

(***************************************************************************)
(* Decimal numbers.  An unsigned integer of any width is its canonical     *)
(* decimal string (no leading zero, "0" for zero).                         *)
(***************************************************************************)
Digits == "0123456789"
DigitSet == {At(Digits, i) : i \in 1..10}
DigitVal(c) == Index(Digits, c) - 1
DigitChar(n) == At(Digits, n + 1)

AllDigits(s) == Len(s) > 0 /\ \A i \in 1..Len(s) : At(s, i) \in DigitSet

RECURSIVE Canon(_)
Canon(s) ==
  IF Len(s) > 1 /\ At(s, 1) = "0" THEN Canon(Tail(s)) ELSE s

RECURSIVE LexLeq(_, _)
\* a <= b for digit strings of equal length
LexLeq(a, b) ==
  IF Len(a) = 0 THEN TRUE
  ELSE IF DigitVal(At(a, 1)) < DigitVal(At(b, 1)) THEN TRUE
  ELSE IF DigitVal(At(a, 1)) > DigitVal(At(b, 1)) THEN FALSE
  ELSE LexLeq(Tail(a), Tail(b))

\* a <= b for canonical decimal strings
NumLeq(a, b) == Len(a) < Len(b) \/ (Len(a) = Len(b) /\ LexLeq(a, b))

MaxUint64 == "18446744073709551615"
MaxUint32 == "4294967295"
MaxUint(bits) == IF bits = 64 THEN MaxUint64 ELSE MaxUint32

\* strconv.ParseUint(s, 10, bits): digits only, no sign, no underscore, in range
ParseUint(s, bits) ==
  IF AllDigits(s) /\ NumLeq(Canon(s), MaxUint(bits))
    THEN [ok |-> TRUE, v |-> Canon(s)]
  ELSE [ok |-> FALSE, v |-> "0"]

RECURSIVE ToDec(_)
\* the decimal string of a small natural number
ToDec(n) == IF n < 10 THEN DigitChar(n) ELSE ToDec(n \div 10) \o DigitChar(n % 10)

RECURSIVE ZeroPad(_, _)
ZeroPad(s, w) == IF Len(s) >= w THEN s ELSE ZeroPad("0" \o s, w)

(***************************************************************************)
(* Arithmetic on canonical decimal strings, for float64.                   *)
(***************************************************************************)
RECURSIVE MulCarry(_, _, _)
\* a * d + carry, for a small natural d
MulCarry(a, d, carry) ==
  IF Len(a) = 0 THEN (IF carry = 0 THEN "" ELSE ToDec(carry))
  ELSE LET x == DigitVal(At(a, Len(a))) * d + carry IN
       MulCarry(SubSeq(a, 1, Len(a) - 1), d, x \div 10) \o DigitChar(x % 10)

MulSmall(a, d) == Canon("0" \o MulCarry(a, d, 0))
AddSmall(a, d) == Canon("0" \o MulCarry(a, 1, d))

RECURSIVE DivAcc(_, _, _, _)
DivAcc(a, d, rem, q) ==
  IF Len(a) = 0 THEN [q |-> Canon("0" \o q), r |-> rem]
  ELSE LET x == rem * 10 + DigitVal(At(a, 1)) IN
       DivAcc(Tail(a), d, x % d, q \o DigitChar(x \div d))

\* quotient and remainder of a by a small natural d
DivSmall(a, d) == DivAcc(a, d, 0, "")

RECURSIVE SubBorrow(_, _, _)
\* a - b - borrow for digit strings of equal length, a >= b
SubBorrow(a, b, borrow) ==
  IF Len(a) = 0 THEN ""
  ELSE LET x == DigitVal(At(a, Len(a))) - DigitVal(At(b, Len(b))) - borrow IN
       SubBorrow(SubSeq(a, 1, Len(a) - 1), SubSeq(b, 1, Len(b) - 1),
                 IF x < 0 THEN 1 ELSE 0)
         \o DigitChar(IF x < 0 THEN x + 10 ELSE x)

Sub(a, b) == Canon(SubBorrow(a, ZeroPad(b, Len(a)), 0))

RECURSIVE MulPow2(_, _)
MulPow2(a, n) ==
  IF n = 0 THEN a
  ELSE IF n >= 16 THEN MulSmall(MulPow2(a, n - 16), 65536)
  ELSE MulSmall(MulPow2(a, n - 1), 2)

RECURSIVE Zeros(_)
Zeros(n) == IF n <= 0 THEN "" ELSE "0" \o Zeros(n - 1)

Pow2_53 == "9007199254740992"
Pow2_54 == "18014398509481984"
Pow2_63 == "9223372036854775808"
Pow2_64 == "18446744073709551616"

(***************************************************************************)
(* float64.  A finite value is [neg, m, e]: (-1)^neg * m * 2^e with        *)
(* m < 2^53 or m = 2^53; exponents stay far from the subnormal and the      *)
(* overflow range for the decimals of the model.                           *)
(***************************************************************************)
Pow2_62 == "4611686018427387904"

RECURSIVE Narrow(_, _, _)
\* halve q, exponent e, until q < 2^54; st records a lost nonzero bit
Narrow(q, st, e) ==
  IF ~NumLeq(Pow2_54, q) THEN [q |-> q, st |-> st, e |-> e]
  ELSE IF NumLeq(Pow2_62, q)
    THEN LET d == DivSmall(q, 256) IN Narrow(d.q, st \/ d.r # 0, e + 8)
  ELSE LET d == DivSmall(q, 2) IN Narrow(d.q, st \/ d.r # 0, e + 1)

\* round-to-nearest-even of q * 2^e (q >= 2^53, plus a lost fraction if st) to 53 bits
RoundEven(q0, st0, e0) ==
  LET n == Narrow(q0, st0, e0)
      d == DivSmall(n.q, 2)
      odd == DivSmall(d.q, 2).r = 1
      up == d.r = 1 /\ (n.st \/ odd)
  IN [m |-> IF up THEN AddSmall(d.q, 1) ELSE d.q, e |-> n.e + 1]

\* the float64 nearest to mant * 10^(-k), mant # "0", k >= 0
DecimalToFloat(mant, k) ==
  LET shift == 54 + 4 * k
      n == MulPow2(mant, shift)
      cut == Len(n) - k
      q == SubSeq(n, 1, cut)
      st == SubSeq(n, cut + 1, Len(n)) # Zeros(k)
  IN RoundEven(q, st, -shift)

\* float64 multiplication of m * 2^e (m # "0") by the exactly representable small c
FloatMulSmall(f, c) ==
  LET p == MulSmall(f.m, c) IN
  IF ~NumLeq(Pow2_53, p) THEN [m |-> p, e |-> f.e]
  ELSE RoundEven(p, FALSE, f.e)

RECURSIVE Halve(_, _)
Halve(a, n) ==
  IF n = 0 \/ a = "0" THEN a
  ELSE IF n >= 16 THEN Halve(DivSmall(a, 65536).q, n - 16)
  ELSE Halve(DivSmall(a, 2).q, n - 1)

\* the integer part of m * 2^e
FloatTrunc(f) == IF f.e >= 0 THEN MulPow2(f.m, f.e) ELSE Halve(f.m, -f.e)

LowerAlpha == "abcdefghijklmnopqrstuvwxyz"
UpperAlpha == "ABCDEFGHIJKLMNOPQRSTUVWXYZ"

RECURSIVE Lower(_)
Lower(s) ==
  IF Len(s) = 0 THEN ""
  ELSE LET u == Index(UpperAlpha, At(s, 1)) IN
       (IF u = 0 THEN At(s, 1) ELSE At(LowerAlpha, u)) \o Lower(Tail(s))

RECURSIVE ToNat(_)
\* the value of a short digit string; 9999 stands for any longer one
ToNat(s) ==
  IF Len(Canon(s)) > 4 THEN 9999
  ELSE IF Len(s) = 0 THEN 0
  ELSE ToNat(SubSeq(s, 1, Len(s) - 1)) * 10 + DigitVal(At(s, Len(s)))

DigitsOrEmpty(s) == \A i \in 1..Len(s) : At(s, i) \in DigitSet

\* strconv.ParseFloat(s, 64) on the decimal and special forms (the model's
\* lines hold no hexadecimal mantissa and no underscore):
\* [ok, kind: "num" | "inf" | "nan", neg, m, e], a "num" being m * 2^e
ParseFloat(s) ==
  LET bad == [ok |-> FALSE, kind |-> "num", neg |-> FALSE, m |-> "0", e |-> 0]
      signed == Len(s) > 0 /\ At(s, 1) \in {"+", "-"}
      neg == Len(s) > 0 /\ At(s, 1) = "-"
      body == IF signed THEN Tail(s) ELSE s
      low == Lower(body)
      ePos == Index(low, "e")
      mantPart == IF ePos = 0 THEN body ELSE SubSeq(body, 1, ePos - 1)
      expPart == IF ePos = 0 THEN "" ELSE SubSeq(body, ePos + 1, Len(body))
      expSigned == Len(expPart) > 0 /\ At(expPart, 1) \in {"+", "-"}
      expDigits == IF expSigned THEN Tail(expPart) ELSE expPart
      exp == IF ePos = 0 THEN 0
             ELSE IF expSigned /\ At(expPart, 1) = "-" THEN -ToNat(expDigits)
             ELSE ToNat(expDigits)
      dot == Index(mantPart, ".")
      intPart == IF dot = 0 THEN mantPart ELSE SubSeq(mantPart, 1, dot - 1)
      fracPart == IF dot = 0 THEN "" ELSE SubSeq(mantPart, dot + 1, Len(mantPart))
      mant == Canon("0" \o intPart \o fracPart)
      d10 == exp - Len(fracPart)
  IN IF low \in {"inf", "infinity"}
       THEN [ok |-> TRUE, kind |-> "inf", neg |-> neg, m |-> "0", e |-> 0]
     ELSE IF low = "nan"
       THEN (IF signed THEN bad
             ELSE [ok |-> TRUE, kind |-> "nan", neg |-> FALSE, m |-> "0", e |-> 0])
     ELSE IF \/ ~DigitsOrEmpty(intPart) \/ ~DigitsOrEmpty(fracPart)
             \/ Len(intPart) + Len(fracPart) = 0
             \/ (ePos # 0 /\ ~AllDigits(expDigits))
       THEN bad
     ELSE IF mant = "0"
       THEN [ok |-> TRUE, kind |-> "num", neg |-> neg, m |-> "0", e |-> 0]
     ELSE IF Len(mant) + d10 > 309 THEN bad  \* ErrRange
     ELSE IF Len(mant) + d10 < -330
       THEN [ok |-> TRUE, kind |-> "num", neg |-> neg, m |-> "0", e |-> 0]
     ELSE LET f == IF d10 >= 0 THEN DecimalToFloat(mant \o Zeros(d10), 0)
                   ELSE DecimalToFloat(mant, -d10)
          IN [ok |-> TRUE, kind |-> "num", neg |-> neg, m |-> f.m, e |-> f.e]

\* uint64(f) where the Go specification leaves the result to the implementation
\* (f negative, too large, infinite or not a number): wrap-around or the
\* indefinite value on amd64, saturation on arm64
OutOfRangeUint64(neg, t) ==
  {"0", Pow2_63}
    \cup (IF neg THEN {} ELSE {MaxUint64})
    \cup (IF neg /\ NumLeq(t, Pow2_63) THEN {Sub(Pow2_64, t)} ELSE {})

\* the values uint64(v * 1000) can take, line 303
UptimeMs(v) ==
  IF v.kind # "num" THEN OutOfRangeUint64(v.neg, Pow2_64)
  ELSE IF v.m = "0" THEN {"0"}
  ELSE LET p == FloatMulSmall(v, 1000)
           t == FloatTrunc(p)
       IN IF t = "0" THEN {"0"}
          ELSE IF v.neg \/ ~NumLeq(t, MaxUint64) THEN OutOfRangeUint64(v.neg, t)
          ELSE {t}

(***************************************************************************)
(* Timestamps.  A time.Time is [year, month, day]; a layout is modelled    *)
(* with its date elements 2006, 01 and 02.                                 *)
(***************************************************************************)
HasPrefix(s, p) == Len(s) >= Len(p) /\ SubSeq(s, 1, Len(p)) = p

RECURSIVE TimeFormat(_, _)
\* time.Time.Format(layout)
TimeFormat(t, layout) ==
  IF Len(layout) = 0 THEN ""
  ELSE IF HasPrefix(layout, "2006")
    THEN ZeroPad(ToDec(t.year), 4) \o TimeFormat(t, SubSeq(layout, 5, Len(layout)))
  ELSE IF HasPrefix(layout, "01")
    THEN ZeroPad(ToDec(t.month), 2) \o TimeFormat(t, SubSeq(layout, 3, Len(layout)))
  ELSE IF HasPrefix(layout, "02")
    THEN ZeroPad(ToDec(t.day), 2) \o TimeFormat(t, SubSeq(layout, 3, Len(layout)))
  ELSE At(layout, 1) \o TimeFormat(t, Tail(layout))

\* ParseTimeStampFormatSpec: "" and "none" give no timestamp, anything that is
\* not a named layout is taken as a layout
ParseTimeStampFormatSpec(tsfSpec) ==
  IF tsfSpec \in {"", "none"} THEN "" ELSE tsfSpec

\* --timestamp-format, and the tsFormat UDPLog derives from it at startup
flagTimestamp == "none"
tsFormat == IF Len(flagTimestamp) > 0 THEN ParseTimeStampFormatSpec(flagTimestamp) ELSE ""

FormatTimestamp(t) == IF Len(tsFormat) = 0 THEN "" ELSE TimeFormat(t, tsFormat)

(***************************************************************************)
(* The record parser.                                                      *)
(***************************************************************************)
MaxDeviceIdLen == 50

\* main's safeChars table
safeChars ==
  {At(LowerAlpha, i) : i \in 1..26} \cup {At(UpperAlpha, i) : i \in 1..26}
    \cup DigitSet \cup {"-", "_", ".", ",", " "}

RECURSIVE SanitizeDrop(_)
\* unsafe bytes dropped instead of replaced
SanitizeDrop(s) ==
  IF Len(s) = 0 THEN ""
  ELSE (IF At(s, 1) \in safeChars THEN At(s, 1) ELSE "") \o SanitizeDrop(Tail(s))

\* no replacement at all
SanitizeNothing(s) == s

RECURSIVE Sanitize(_)
\* the in-place replacement loop of parseLine
Sanitize(s) ==
  IF Len(s) = 0 THEN ""
  ELSE (IF At(s, 1) \in safeChars THEN At(s, 1) ELSE "_") \o Sanitize(Tail(s))

\* the switch without its case 0
LevelCharNoError(level) ==
  CASE level = "1" -> "W"
    [] level = "2" -> "I"
    [] level = "3" -> "D"
    [] level = "4" -> "V"
    [] OTHER -> At(level, Len(level))

\* the switch on li.Level
LevelChar(level) ==
  CASE level = "0" -> "E"
    [] level = "1" -> "W"
    [] level = "2" -> "I"
    [] level = "3" -> "D"
    [] level = "4" -> "V"
    [] OTHER -> At(level, Len(level))

\* the message of the level check pasted into the fd check
ErrInvalidFDPasted == "invalid level"

ErrMissingDelimiter == "missing msg delimiter"
ErrMalformedHeader == "invalid number of parts"
ErrInvalidDeviceId == "invalid device id"
ErrInvalidSeqNum == "invalid seqnum"
ErrInvalidUptime == "invalid uptime"
ErrInvalidFD == "invalid fd"
ErrInvalidLevel == "invalid level"

NoLine == << >>
Failure(e) == {[err |-> e, li |-> NoLine]}

\* parseLine(ts, src, line): the set of results it can return, each
\* [err, li] with err = "" on success
parseLine(t, src, raw) ==
  LET bar == Index(raw, "|")
      infoStr == SubSeq(raw, 1, bar - 1)
      msg == SubSeq(raw, bar + 1, Len(raw))
      parts == Split(infoStr, " ")
      seq == ParseUint(parts[2], 64)
      up == ParseFloat(parts[3])
      fd == ParseUint(parts[4], 32)
      lvl == ParseUint(parts[5], 32)
      ds == TimeFormat(t, "20060102")
  IN IF bar = 0 THEN Failure(ErrMissingDelimiter)
     ELSE IF Len(parts) # 5 THEN Failure(ErrMalformedHeader)
     ELSE IF ~(Len(parts[1]) > 0 /\ Len(parts[1]) <= MaxDeviceIdLen)
       THEN Failure(ErrInvalidDeviceId)
     ELSE IF ~seq.ok THEN Failure(ErrInvalidSeqNum)
     ELSE IF ~up.ok THEN Failure(ErrInvalidUptime)
     ELSE IF ~fd.ok THEN Failure(ErrInvalidFD)
     ELSE IF ~lvl.ok THEN Failure(ErrInvalidLevel)
     ELSE {[err |-> "",
            li |-> [Src |-> src,
                    Timestamp |-> t,
                    DeviceID |-> parts[1],
                    SeqNum |-> seq.v,
                    UptimeMs |-> ms,
                    FD |-> fd.v,
                    Level |-> lvl.v,
                    Msg |-> msg,
                    TimestampStr |-> FormatTimestamp(t),
                    DeviceIDSafe |-> Sanitize(parts[1]),
                    Year |-> SubSeq(ds, 1, 4),
                    Month |-> SubSeq(ds, 5, 6),
                    Day |-> SubSeq(ds, 7, 8),
                    LevelChar |-> LevelChar(lvl.v)]] : ms \in UptimeMs(up)}

(***************************************************************************)
(* The file system, as the system calls of file_log.go see it.  A value    *)
(* fs is [files, links, dirs, fds, removed]; paths are keyed by their      *)
(* clean form.  External failures (permissions, disk full, I/O errors)     *)
(* are inputs of the callers of these operators.                           *)
(***************************************************************************)
FS == [files |-> files, links |-> links, dirs |-> dirs, fds |-> fds,
       removed |-> removed]

Without(f, k) == [x \in (DOMAIN f) \ {k} |-> f[x]]

PathPrefixes(p) ==
  LET parts == Split(p, "/") IN
  {Join(SubSeq(parts, 1, i), "/") : i \in 1..Len(parts)} \ {"", "."}

DirExists(fs, d) == d \in fs.dirs \cup {".", "..", "/"}

PathExists(fs, p) ==
  p \in DOMAIN fs.files \/ p \in DOMAIN fs.links \/ p \in fs.dirs

\* os.MkdirAll(path, 0o755): fails when an element of the path is not a directory
MkdirAll(fs, path) ==
  LET want == PathPrefixes(Clean(path)) IN
  IF \E q \in want : q \in DOMAIN fs.files \/ q \in DOMAIN fs.links
    THEN [ok |-> FALSE, fs |-> fs]
  ELSE [ok |-> TRUE, fs |-> [fs EXCEPT !.dirs = @ \cup want]]

\* an open with O_TRUNC: the file starts empty every time
OpenFileTrunc(fs, name) ==
  LET p == Clean(name)
      q == IF p \in DOMAIN fs.links
             THEN Clean(Dir(p) \o "/" \o fs.links[p])
           ELSE p
  IN IF q \in fs.dirs \/ ~DirExists(fs, Dir(q))
       THEN [ok |-> FALSE, fd |-> NilFd, fs |-> fs]
     ELSE [ok |-> TRUE,
           fd |-> Len(fs.fds) + 1,
           fs |-> [fs EXCEPT
                     !.files = (q :> << >>) @@ @,
                     !.fds = Append(@, [name |-> q, open |-> TRUE])]]

\* os.OpenFile(name, O_APPEND|O_CREATE|O_WRONLY, 0o644): follows a link,
\* creates the file when it is missing, never truncates
OpenFile(fs, name) ==
  LET p == Clean(name)
      q == IF p \in DOMAIN fs.links
             THEN Clean(Dir(p) \o "/" \o fs.links[p])
           ELSE p
  IN IF q \in fs.dirs \/ ~DirExists(fs, Dir(q))
       THEN [ok |-> FALSE, fd |-> NilFd, fs |-> fs]
     ELSE [ok |-> TRUE,
           fd |-> Len(fs.fds) + 1,
           fs |-> [fs EXCEPT
                     !.files = IF q \in DOMAIN @ THEN @ ELSE (q :> << >>) @@ @,
                     !.fds = Append(@, [name |-> q, open |-> TRUE])]]

\* (*os.File).Close
CloseFile(fs, fd) == [fs EXCEPT !.fds[fd].open = FALSE]

\* a write at the start of the file instead of its end
WriteFilePrepend(fs, fd, data, by) ==
  IF fd = NilFd \/ ~fs.fds[fd].open \/ fs.fds[fd].name \notin DOMAIN fs.files
    THEN [ok |-> FALSE, fs |-> fs]
  ELSE [ok |-> TRUE,
        fs |-> [fs EXCEPT !.files[fs.fds[fd].name] =
                            <<[by |-> by, data |-> data]>> \o @]]

\* (*os.File).Write on an O_APPEND descriptor; by is the call that writes
WriteFile(fs, fd, data, by) ==
  IF fd = NilFd \/ ~fs.fds[fd].open \/ fs.fds[fd].name \notin DOMAIN fs.files
    THEN [ok |-> FALSE, fs |-> fs]
  ELSE [ok |-> TRUE,
        fs |-> [fs EXCEPT !.files[fs.fds[fd].name] =
                            Append(@, [by |-> by, data |-> data])]]

\* os.Readlink
Readlink(fs, name) ==
  LET p == Clean(name) IN
  IF p \in DOMAIN fs.links THEN [ok |-> TRUE, target |-> fs.links[p]]
  ELSE [ok |-> FALSE, target |-> ""]

\* os.Remove: a link, a file or an empty directory
Remove(fs, name) ==
  LET p == Clean(name)
      noted == [fs EXCEPT !.removed = @ \cup {p}]
  IN IF p \in DOMAIN fs.links THEN [noted EXCEPT !.links = Without(@, p)]
     ELSE IF p \in DOMAIN fs.files THEN [noted EXCEPT !.files = Without(@, p)]
     ELSE IF p \in fs.dirs /\ ~\E q \in fs.dirs \cup DOMAIN fs.files \cup DOMAIN fs.links :
                                  Beneath(q, p)
       THEN [noted EXCEPT !.dirs = @ \ {p}]
     ELSE noted

\* os.Symlink(target, name): fails when name exists
Symlink(fs, target, name) ==
  LET p == Clean(name) IN
  IF PathExists(fs, p) \/ ~DirExists(fs, Dir(p)) THEN [ok |-> FALSE, fs |-> fs]
  ELSE [ok |-> TRUE, fs |-> [fs EXCEPT !.links = (p :> target) @@ @]]

(***************************************************************************)
(* The file manager.                                                       *)
(***************************************************************************)
\* a per-month name: the day left out of the pattern
deviceLogNameNoDay == "{{.DeviceIDSafe}}.{{.Year}}{{.Month}}.log"

deviceLogName == "{{.DeviceIDSafe}}.{{.Year}}{{.Month}}{{.Day}}.log"
latestDeviceLogName == "{{.DeviceIDSafe}}.log"

\* --log-dir and --file-format
flagLogDir == "logs"
flagFileFormat == "{{.LevelChar}} {{.Msg}}"

\* the templates NewFileManager compiles
nameTmpl == TmplNodes(PathJoin(flagLogDir, "{{.DeviceIDSafe}}", deviceLogName))
latestNameTmpl == TmplNodes(PathJoin(flagLogDir, "{{.DeviceIDSafe}}", latestDeviceLogName))
recordTmpl == TmplNodes(flagFileFormat)

\* the external failures one Open can meet: TRUE where the system call fails
NoFailure == [mkdir |-> FALSE, open |-> FALSE, readlink |-> FALSE,
              remove |-> FALSE, symlink |-> FALSE]
Failures == [mkdir : BOOLEAN, open : BOOLEAN, readlink : BOOLEAN,
             remove : BOOLEAN, symlink : BOOLEAN]
FailureCount(o) ==
  Cardinality({k \in DOMAIN o : o[k]})

\* what deviceInfo.Open leaves behind: the handle, the file system, whether it
\* returned an error, took the fast path, called os.Symlink (tried) with
\* success (linked), and the system calls it made
OpenResult(di, fs, err, fast, tried, linked, used) ==
  [di |-> di, fs |-> fs, err |-> err, fast |-> fast, tried |-> tried,
   linked |-> linked, used |-> used]

\* a Close that forgets the descriptor without closing it
CloseLeak(di, fs) == [di |-> [di EXCEPT !.fd = NilFd], fs |-> fs]

\* deviceInfo.Close
Close(di, fs) ==
  IF di.fd # NilFd
    THEN [di |-> [di EXCEPT !.fd = NilFd], fs |-> CloseFile(fs, di.fd)]
  ELSE [di |-> di, fs |-> fs]

\* link maintenance whose symlink failure makes Open return the error
RelinkFatal(di, fs1, o, latestBase, latestName) ==
  LET sl == Symlink(fs1, latestBase, latestName) IN
  IF sl.ok /\ ~o.symlink
    THEN OpenResult(di, sl.fs, FALSE, FALSE, TRUE, TRUE,
                    {"mkdir", "open", "readlink", "remove", "symlink"})
  ELSE OpenResult(di, fs1, TRUE, FALSE, TRUE, FALSE,
                  {"mkdir", "open", "readlink", "remove", "symlink"})

\* lines 72-77: os.Remove was called and left fs1; os.Symlink
Relink(di, fs1, o, latestBase, latestName) ==
  LET sl == Symlink(fs1, latestBase, latestName) IN
  IF sl.ok /\ ~o.symlink
    THEN OpenResult(di, sl.fs, FALSE, FALSE, TRUE, TRUE,
                    {"mkdir", "open", "readlink", "remove", "symlink"})
  ELSE OpenResult(di, fs1, FALSE, FALSE, TRUE, FALSE,
                  {"mkdir", "open", "readlink", "remove", "symlink"})

\* link maintenance that leaves any existing link alone
CheckLatestIfMissing(di, fs, o, latestBase, latestName) ==
  LET rl == Readlink(fs, latestName) IN
  IF rl.ok /\ ~o.readlink
    THEN OpenResult(di, fs, FALSE, FALSE, FALSE, FALSE, {"mkdir", "open", "readlink"})
  ELSE Relink(di, IF o.remove THEN fs ELSE Remove(fs, latestName), o,
              latestBase, latestName)

\* lines 69-78: os.Readlink, and the replacement of a missing or different link
CheckLatest(di, fs, o, latestBase, latestName) ==
  LET rl == Readlink(fs, latestName) IN
  IF rl.ok /\ ~o.readlink /\ rl.target = latestBase
    THEN OpenResult(di, fs, FALSE, FALSE, FALSE, FALSE, {"mkdir", "open", "readlink"})
  ELSE Relink(di, IF o.remove THEN fs ELSE Remove(fs, latestName), o,
              latestBase, latestName)

\* lines 64-79: the "latest" link of the file just opened
UpdateLatest(di, li, fs, o) ==
  LET latestName == execTmpl(latestNameTmpl, li) IN
  IF ~latestName.ok
    THEN OpenResult(di, fs, TRUE, FALSE, FALSE, FALSE, {"mkdir", "open"})
  ELSE CheckLatest(di, fs, o, Base(di.fname), latestName.out)

\* lines 58-63: of is what os.OpenFile returned
Opened(di, li, fs, o, of) ==
  IF o.open \/ ~of.ok
    THEN OpenResult(di, fs, TRUE, FALSE, FALSE, FALSE, {"mkdir", "open"})
  ELSE UpdateLatest([di EXCEPT !.fd = of.fd], li, of.fs, o)

\* lines 55-58: md is what os.MkdirAll returned
DirMade(di, li, fs, o, md) ==
  IF o.mkdir \/ ~md.ok
    THEN OpenResult(di, fs, TRUE, FALSE, FALSE, FALSE, {"mkdir"})
  ELSE Opened(di, li, md.fs, o, OpenFile(md.fs, di.fname))

\* di.fname set only once the file is open: a failure restores the old name
ReopenNameLater(closed, li, o, fname) ==
  LET r == DirMade([closed.di EXCEPT !.fname = fname], li, closed.fs, o,
                   MkdirAll(closed.fs, Dir(fname)))
  IN IF r.err THEN [r EXCEPT !.di.fname = closed.di.fname] ELSE r

\* lines 51-55: the old descriptor is closed and di.fname set before any
\* system call that can fail
Reopen(closed, li, o, fname) ==
  DirMade([closed.di EXCEPT !.fname = fname], li, closed.fs, o,
          MkdirAll(closed.fs, Dir(fname)))

\* the fast-path test without the descriptor check
AlreadyOpenByName(di, fname) == di.fname = fname

\* the fast-path test of deviceInfo.Open, line 48
AlreadyOpen(di, fname) == di.fname = fname /\ di.fd # NilFd

\* lines 45-53: fname is what execTmpl(nameTmpl, li) returned
OpenNamed(di, li, fs, o, fname) ==
  IF ~fname.ok THEN OpenResult(di, fs, TRUE, FALSE, FALSE, FALSE, {})
  ELSE IF AlreadyOpen(di, fname.out)
    THEN OpenResult(di, fs, FALSE, TRUE, FALSE, FALSE, {})
  ELSE Reopen(Close(di, fs), li, o, fname.out)

\* deviceInfo.Open(nameTmpl, latestNameTmpl, li) under the failures o
Open(di, li, fs, o) == OpenNamed(di, li, fs, o, execTmpl(nameTmpl, li))

(***************************************************************************)
(* The callers: processLine, then FileManager.WriteLine step by step.      *)
(***************************************************************************)
\* the lines and receive times the ingestion loop hands to processLine
SrcAddr == "10.0.0.7:4321"
Lines == {"d1 1 1.5 3 2|up", ".. 2 2 3 0|a|b", "d1 1 1.5 3|bad"}
Times == {[year |-> 2022, month |-> 1, day |-> 2],
          [year |-> 2022, month |-> 1, day |-> 3]}

\* what parseLine returns for them: <<raw, result>>
Parses ==
  UNION {{<<raw, r>> : r \in parseLine(t, SrcAddr, raw)} : raw \in Lines, t \in Times}

Key(c) == calls[cur[c]].li.DeviceIDSafe

\* processLine: parse the line; a parse error is returned to the loop,
\* otherwise WriteLine is entered
Call(c) ==
  /\ pc[c] = "idle"
  /\ Len(calls) < MaxCalls
  /\ \E p \in Parses :
       LET r == p[2] IN
       /\ calls' = Append(calls, [raw |-> p[1], err |-> r.err, li |-> r.li,
                                  res |-> IF r.err = "" THEN "run" ELSE "invalid",
                                  fast |-> FALSE, tried |-> FALSE, linked |-> FALSE,
                                  before |-> "", wrote |-> 0, werr |-> FALSE,
                                  turn |-> 0])
       /\ IF r.err = ""
            THEN /\ pc' = [pc EXCEPT ![c] = "lock"]
                 /\ cur' = [cur EXCEPT ![c] = Len(calls) + 1]
            ELSE UNCHANGED <<pc, cur>>
  /\ UNCHANGED <<devices, fds, files, links, dirs, removed, mu, wpos, faults, clock, parseVars>>

\* a lock that never waits
CanLockAlways(c) == TRUE

\* sync.Mutex.Lock returns only when the mutex is free
CanLock(c) == mu = NoCaller

\* how many calls have held the mutex
Turns == Cardinality({i \in DOMAIN calls : calls[i].turn > 0})

\* fm.mu.Lock()
Lock(c) ==
  /\ pc[c] = "lock"
  /\ CanLock(c)
  /\ mu' = c
  /\ calls' = [calls EXCEPT ![cur[c]].turn = Turns + 1]
  /\ pc' = [pc EXCEPT ![c] = "lookup"]
  /\ UNCHANGED <<devices, fds, files, links, dirs, removed, cur, wpos, faults, clock, parseVars>>

\* di, found := fm.devices[li.DeviceIDSafe], and the creation of a missing entry
Lookup(c) ==
  /\ pc[c] = "lookup"
  /\ IF Key(c) \in DOMAIN devices
       THEN UNCHANGED <<devices, clock>>
       ELSE /\ devices' = (Key(c) :> [fd |-> NilFd, fname |-> "", lastUsed |-> clock]) @@ devices
            /\ clock' = clock + 1
  /\ pc' = [pc EXCEPT ![c] = "open"]
  /\ UNCHANGED <<fds, files, links, dirs, removed, mu, cur, wpos, calls, faults, parseVars>>

\* di.Open(...), and the early return of WriteLine when it fails
OpenStep(c) ==
  /\ pc[c] = "open"
  /\ \E o \in {x \in Failures : faults + FailureCount(x) <= MaxFaults} :
       \E r \in {Open(devices[Key(c)], calls[cur[c]].li, FS, o)} :
          /\ \A k \in DOMAIN o : o[k] => k \in r.used
          /\ faults' = faults + FailureCount(o)
          /\ devices' = [devices EXCEPT ![Key(c)] = r.di]
          /\ files' = r.fs.files
          /\ links' = r.fs.links
          /\ dirs' = r.fs.dirs
          /\ fds' = r.fs.fds
          /\ removed' = r.fs.removed
          /\ calls' = [calls EXCEPT ![cur[c]].res = IF r.err THEN "dropped" ELSE @,
                                    ![cur[c]].fast = r.fast,
                                    ![cur[c]].tried = r.tried,
                                    ![cur[c]].linked = r.linked,
                                    ![cur[c]].before = devices[Key(c)].fname]
          /\ pc' = [pc EXCEPT ![c] = IF r.err THEN "unlock" ELSE "exec"]
          /\ wpos' = [wpos EXCEPT ![c] = 1]
  /\ UNCHANGED <<mu, cur, clock, parseVars>>

\* one Write of WriteLine on di.fd, by the caller c, failing externally if fail
WriteStep(c, data, fail) ==
  \E w \in {WriteFile(FS, devices[Key(c)].fd, data.out, cur[c])} :
    \E ok \in {data.ok /\ w.ok /\ ~fail} :
      /\ fail => (faults < MaxFaults /\ data.ok /\ w.ok)
      /\ faults' = IF fail THEN faults + 1 ELSE faults
      /\ files' = IF ok THEN w.fs.files ELSE files
      /\ calls' = [calls EXCEPT ![cur[c]].wrote = IF ok THEN @ + 1 ELSE @,
                                ![cur[c]].werr = @ \/ ~ok]
      /\ pc' = [pc EXCEPT ![c] =
                  IF pc[c] = "newline" THEN "stamp"
                  ELSE IF ~ok \/ wpos[c] = Len(recordTmpl) THEN "newline"
                  ELSE "exec"]

\* fm.recordTmpl.Execute(di.fd, li): one Write per template node; it stops at
\* the first node or write that fails, and WriteLine ignores its error
Exec(c) ==
  /\ pc[c] = "exec"
  /\ IF wpos[c] > Len(recordTmpl)
       THEN /\ pc' = [pc EXCEPT ![c] = "newline"]
            /\ UNCHANGED <<files, calls, faults>>
       ELSE \E fail \in BOOLEAN :
              WriteStep(c, ExecNode(recordTmpl[wpos[c]], calls[cur[c]].li), fail)
  /\ wpos' = [wpos EXCEPT ![c] = @ + 1]
  /\ UNCHANGED <<devices, fds, links, dirs, removed, mu, cur, clock, parseVars>>

\* di.fd.Write([]byte{'\n'}), its error ignored
Newline(c) ==
  /\ pc[c] = "newline"
  /\ \E fail \in BOOLEAN : WriteStep(c, [ok |-> TRUE, out |-> "\n"], fail)
  /\ UNCHANGED <<devices, fds, links, dirs, removed, mu, cur, wpos, clock, parseVars>>

\* di.lastUsed = time.Now()
Stamp(c) ==
  /\ pc[c] = "stamp"
  /\ devices' = [devices EXCEPT ![Key(c)].lastUsed = clock]
  /\ clock' = clock + 1
  /\ pc' = [pc EXCEPT ![c] = "unlock"]
  /\ UNCHANGED <<fds, files, links, dirs, removed, mu, cur, wpos, calls, faults, parseVars>>

\* a return from WriteLine without the deferred Unlock
UnlockForgotten(c) ==
  /\ pc[c] = "unlock"
  /\ calls' = [calls EXCEPT ![cur[c]].res = IF @ = "run" THEN "done" ELSE @]
  /\ pc' = [pc EXCEPT ![c] = "idle"]
  /\ cur' = [cur EXCEPT ![c] = 0]
  /\ UNCHANGED <<devices, fds, files, links, dirs, removed, mu, wpos, faults, clock, parseVars>>

\* the deferred fm.mu.Unlock() and the return of WriteLine
Unlock(c) ==
  /\ pc[c] = "unlock"
  /\ mu' = IF mu = c THEN NoCaller ELSE mu
  /\ calls' = [calls EXCEPT ![cur[c]].res = IF @ = "run" THEN "done" ELSE @]
  /\ pc' = [pc EXCEPT ![c] = "idle"]
  /\ cur' = [cur EXCEPT ![c] = 0]
  /\ UNCHANGED <<devices, fds, files, links, dirs, removed, wpos, faults, clock, parseVars>>

\* outside the program: somebody deletes a "latest" link
LinkLost ==
  /\ faults < MaxFaults
  /\ mu = NoCaller
  /\ \E p \in DOMAIN links : links' = Without(links, p)
  /\ faults' = faults + 1
  /\ UNCHANGED <<devices, fds, files, dirs, removed, mu, pc, cur, wpos, calls, clock, parseVars>>

\* the state NewFileManager returns: the log directory exists, no device yet
FMInit ==
  /\ devices = << >>
  /\ fds = << >>
  /\ files = << >>
  /\ links = << >>
  /\ dirs = PathPrefixes(Clean(flagLogDir))
  /\ removed = {}
  /\ mu = NoCaller
  /\ pc = [c \in Callers |-> "idle"]
  /\ cur = [c \in Callers |-> 0]
  /\ wpos = [c \in Callers |-> 1]
  /\ calls = << >>
  /\ faults = 0
  /\ clock = 0

\* the loop is serving with --file-format as configured, between datagrams
LoopIdle ==
  /\ phase = "serving"
  /\ format = flagFileFormat
  /\ pkts = << >>
  /\ buf = ""
  /\ handed = << >>

Init ==
  /\ FMInit
  /\ LoopIdle
  /\ line = ""
  /\ ts = [year |-> 2022, month |-> 1, day |-> 2]
  /\ parsed = {}

Next ==
  \/ \E c \in Callers : Call(c)
  \/ \E c \in Callers : Lock(c)
  \/ \E c \in Callers : Lookup(c)
  \/ \E c \in Callers : OpenStep(c)
  \/ \E c \in Callers : Exec(c)
  \/ \E c \in Callers : Newline(c)
  \/ \E c \in Callers : Stamp(c)
  \/ \E c \in Callers : Unlock(c)
  \/ LinkLost

Spec == Init /\ [][Next]_vars

\* Every system call of WriteLine returns, so a caller inside WriteLine takes
\* its next step; sync.Mutex hands the mutex to a waiting caller once it is
\* free (a waiter starved for 1ms is served first).  OpenStep(c) is enabled
\* exactly when pc[c] = "open", and its weak fairness is written out with that.
SpecFair ==
  /\ Init
  /\ [][Next]_vars
  /\ \A c \in Callers :
       /\ WF_vars(Lock(c))
       /\ WF_vars(Lookup(c))
       /\ ([]<>(pc[c] # "open") \/ []<><<OpenStep(c)>>_vars)
       /\ WF_vars(Exec(c))
       /\ WF_vars(Newline(c))
       /\ WF_vars(Stamp(c))
       /\ WF_vars(Unlock(c))

(***************************************************************************)
(* The ingestion loop of UDPLog with one reader: startup, then for each     *)
(* datagram the lines of its buffer, each handed to processLine, which      *)
(* runs WriteLine to its end before the next line is read.                  *)
(***************************************************************************)
MaxDatagrams == 2

\* the values of --file-format tried: the one of Spec, one naming a field
\* LineInfo does not have, one with an unclosed action
Formats == {flagFileFormat, "{{.LevelChar}} {{.Message}}", "{{.LevelChar}} {{.Msg"}

\* the datagrams a device sends
Datagrams ==
  {"d1 1 1.5 3 2|up\n",
   "d1 1 1.5 3 2|up\r\nnot a record\n.. 2 2 3 0|a|b\n",
   "d1 1 1.5 3 2|up\na 1 1 1 1|",
   "a 1 1 1 1|\n",
   "a 1 1 1 1|",
   "d1 1 1.5 3 2|up\nbad\n"}

RECURSIVE TrimRight(_)
\* bytes.TrimRight(line, "\r\n")
TrimRight(s) ==
  IF Len(s) > 0 /\ At(s, Len(s)) \in {"\r", "\n"}
    THEN TrimRight(SubSeq(s, 1, Len(s) - 1))
  ELSE s

\* line, _ := buf.ReadBytes('\n'): up to and including the first newline, or
\* all of the buffer when it has none
ReadBytes(b) ==
  IF Index(b, "\n") = 0 THEN [line |-> b, rest |-> ""]
  ELSE [line |-> SubSeq(b, 1, Index(b, "\n")),
        rest |-> SubSeq(b, Index(b, "\n") + 1, Len(b))]

RECURSIVE WriteAll(_, _, _, _, _)
\* Template.Execute(di.fd, li) without write failures: one Write per node,
\* stopping at the first node that cannot be evaluated
WriteAll(fs, fd, nodes, li, by) ==
  IF Len(nodes) = 0 THEN fs
  ELSE IF ~ExecNode(Head(nodes), li).ok THEN fs
  ELSE WriteAll(WriteFile(fs, fd, ExecNode(Head(nodes), li).out, by).fs,
                fd, Tail(nodes), li, by)

\* the handle WriteLine finds or creates for the event li
Handle(li) ==
  IF li.DeviceIDSafe \in DOMAIN devices THEN devices[li.DeviceIDSafe]
  ELSE [fd |-> NilFd, fname |-> "", lastUsed |-> clock]

\* the file system after the writes of WriteLine, r being what Open returned
Written(r, li, by) ==
  IF r.err THEN r.fs
  ELSE WriteFile(WriteAll(r.fs, r.di.fd, TmplNodes(format), li, by),
                 r.di.fd, "\n", by).fs

\* FileManager.WriteLine(li) from Lock to Unlock, every system call succeeding
WriteLine(li, by) ==
  \E r \in {Open(Handle(li), li, FS, NoFailure)} :
    \E w \in {Written(r, li, by)} :
      /\ devices' = (li.DeviceIDSafe :>
                       [r.di EXCEPT !.lastUsed = IF r.err THEN @ ELSE clock + 1])
                    @@ devices
      /\ files' = w.files
      /\ links' = w.links
      /\ dirs' = w.dirs
      /\ fds' = w.fds
      /\ removed' = w.removed
      /\ clock' = clock + 2

\* UDPLog up to its loop: the timestamp format, then NewFileManager, which
\* creates the log directory and compiles the three templates
Start ==
  /\ phase = "boot"
  /\ \E md \in {MkdirAll(FS, flagLogDir)} :
       /\ dirs' = md.fs.dirs
       /\ phase' = IF /\ md.ok /\ TmplOk(nameTmpl) /\ TmplOk(latestNameTmpl)
                      /\ TmplOk(TmplNodes(format))
                     THEN "serving" ELSE "failed"
  /\ UNCHANGED <<devices, fds, files, links, removed, mu, pc, cur, wpos, calls,
                 faults, clock, line, ts, parsed, format, pkts, buf, handed>>

\* n, src, err := udpc.ReadFromUDP(pkt), once the inner loop has ended: a
\* read error ends UDPLog, a datagram becomes the new buffer
Receive ==
  /\ phase = "serving"
  /\ Len(buf) <= 10
  /\ Len(pkts) < MaxDatagrams
  /\ \/ /\ phase' = "stopped"
        /\ UNCHANGED <<pkts, buf, ts>>
     \/ /\ \E d \in Datagrams : pkts' = Append(pkts, d) /\ buf' = d
        /\ \E t \in Times : ts' = t
        /\ UNCHANGED phase
  /\ UNCHANGED <<fmVars, line, parsed, format, handed>>

\* one round of "for buf.Len() > 10": read a line, trim it, processLine
Step ==
  /\ phase = "serving"
  /\ Len(buf) > 10
  /\ buf' = ReadBytes(buf).rest
  /\ line' = TrimRight(ReadBytes(buf).line)
  /\ \E r \in parseLine(ts, SrcAddr, TrimRight(ReadBytes(buf).line)) :
       /\ parsed' = {r}
       /\ handed' = Append(handed, [pkt |-> Len(pkts), line |-> line', err |-> r.err])
       /\ IF r.err = "" THEN WriteLine(r.li, Len(handed) + 1)
          ELSE UNCHANGED <<devices, files, links, dirs, fds, removed, clock>>
  /\ UNCHANGED <<mu, pc, cur, wpos, calls, faults, ts, phase, format, pkts>>

\* the process before UDPLog runs: nothing on disk
LoopInit ==
  /\ devices = << >>
  /\ fds = << >>
  /\ files = << >>
  /\ links = << >>
  /\ dirs = {}
  /\ removed = {}
  /\ mu = NoCaller
  /\ pc = [c \in Callers |-> "idle"]
  /\ cur = [c \in Callers |-> 0]
  /\ wpos = [c \in Callers |-> 1]
  /\ calls = << >>
  /\ faults = 0
  /\ clock = 0
  /\ line = ""
  /\ ts = [year |-> 2022, month |-> 1, day |-> 2]
  /\ parsed = {}
  /\ phase = "boot"
  /\ format \in Formats
  /\ pkts = << >>
  /\ buf = ""
  /\ handed = << >>

LoopNext == Start \/ Receive \/ Step

SpecLoop == LoopInit /\ [][LoopNext]_vars

(***************************************************************************)
(* The parser alone: processLine hands one received line to parseLine.     *)
(***************************************************************************)
MaxLevel == 17

RECURSIVE Repeat(_, _)
Repeat(s, n) == IF n = 0 THEN "" ELSE s \o Repeat(s, n - 1)

\* a line as a device sends it
Record(f) == Join(<<f.id, f.seq, f.up, f.fd, f.lvl>>, " ") \o "|" \o f.msg

Fields(id, seq, up, fd, lvl, msg) ==
  [id |-> id, seq |-> seq, up |-> up, fd |-> fd, lvl |-> lvl, msg |-> msg]

\* field values a datagram can carry
ParseIds ==
  {"d1", "my*dev!", "..", "a/b", "", Repeat("a", MaxDeviceIdLen),
   Repeat("a", MaxDeviceIdLen + 1)}
ParseSeqs == {"7", "007", "-1", "x", MaxUint64, "18446744073709551616"}
ParseUps ==
  {"12.5", "1.001", "1.0006", "0.0004", "0", "3", "2.", "-1.5", "-0.0001", "x",
   "", "2.5.1", "1e3", "nan", "inf"}
ParseFds == {"1", "03", MaxUint32, "4294967296", "z"}
ParseLvls == {ToDec(n) : n \in 0..MaxLevel} \cup {"004", "-1", "4294967296", "q"}
ParseMsgs == {"up", "a|b c", ""}

\* well-formed headers: every combination of a valid and an invalid value of
\* each field, and every value of each field with the other fields valid
ParseFields ==
  {Fields(id, seq, up, fd, lvl, "up") :
     id \in {"d1", "", ".."}, seq \in {"7", "-1"}, up \in {"12.5", "x", "-1.5"},
     fd \in {"1", "z"}, lvl \in {"2", "q"}}
  \cup {Fields(id, "7", "12.5", "1", "2", msg) : id \in ParseIds, msg \in ParseMsgs}
  \cup {Fields("d1", seq, "12.5", "1", "2", "up") : seq \in ParseSeqs}
  \cup {Fields("d1", "7", up, "1", "2", "up") : up \in ParseUps}
  \cup {Fields("d1", "7", "12.5", fd, "2", "up") : fd \in ParseFds}
  \cup {Fields("d1", "7", "12.5", "1", lvl, "up") : lvl \in ParseLvls}

\* lines without a delimiter or with another number of header fields
Malformed ==
  {"", "|", "d1 7 12.5 1 2", "x 7 12.5 1 2 up", "d1 7 12.5 1|up",
   "d1 7 12.5 1 2 9|up", "d1  7 12.5 1 2|up", " d1 7 12.5 1 2|up",
   "d1 7 12.5|1 2|up", "|d1 7 12.5 1 2"}

\* the lines the ingestion loop hands to processLine
ParseLines == {Record(f) : f \in ParseFields} \cup Malformed

\* processLine's call: li, err := parseLine(ts, src, line)
ParseStep ==
  /\ parsed = {}
  /\ parsed' = parseLine(ts, SrcAddr, line)
  /\ UNCHANGED <<fmVars, line, ts, loopVars>>

ParseInit ==
  /\ FMInit
  /\ LoopIdle
  /\ line \in ParseLines
  /\ ts \in Times
  /\ parsed = {}

ParseNext == ParseStep

SpecParse == ParseInit /\ [][ParseNext]_vars

(***************************************************************************)
(* Properties of the file manager, checked under Spec.                     *)
(***************************************************************************)
\* the steps of WriteLine between Lock and Unlock
Locked == {"lookup", "open", "exec", "newline", "stamp", "unlock"}

\* the steps of WriteLine after a successful Open
Writing == {"exec", "newline", "stamp", "unlock"}

RECURSIVE Concat(_)
Concat(chunks) ==
  IF Len(chunks) = 0 THEN "" ELSE Head(chunks).data \o Concat(Tail(chunks))

\* what the call i has written to the file p
ChunksOf(p, i) == SelectSeq(files[p], LAMBDA ch : ch.by = i)

\* the record of an event under --file-format, with its newline
Rendered(li) == li.LevelChar \o " " \o li.Msg \o "\n"

SameDay(x, y) == x.Year = y.Year /\ x.Month = y.Month /\ x.Day = y.Day

\* a call that returned from WriteLine with every write successful
Complete(i) == calls[i].res = "done" /\ ~calls[i].werr

\* the device's "latest" link and the base name of its file for the event li
LatestPath(li) ==
  Clean(flagLogDir \o "/" \o li.DeviceIDSafe \o "/" \o li.DeviceIDSafe \o ".log")
DayBase(li) == li.DeviceIDSafe \o "." \o li.Year \o li.Month \o li.Day \o ".log"
LinkIsCurrent(li) ==
  LatestPath(li) \in DOMAIN links /\ links[LatestPath(li)] = DayBase(li)

\* C1: events of one device on two different days go to two distinct files,
\* each file holds only lines of one device and day, every completed write is
\* in a file, and while the write that switched days is finishing the "latest"
\* link names the new day's file, unless creating that link failed.
C1_Rotation ==
  /\ \A p \in DOMAIN files : \A a, b \in 1..Len(files[p]) :
       /\ calls[files[p][a].by].li.DeviceIDSafe = calls[files[p][b].by].li.DeviceIDSafe
       /\ SameDay(calls[files[p][a].by].li, calls[files[p][b].by].li)
  /\ \A i \in DOMAIN calls :
       Complete(i) => \E p \in DOMAIN files : Concat(ChunksOf(p, i)) = Rendered(calls[i].li)
  /\ \A i, j \in DOMAIN calls :
       (/\ Complete(i) /\ Complete(j)
        /\ calls[i].li.DeviceIDSafe = calls[j].li.DeviceIDSafe
        /\ ~SameDay(calls[i].li, calls[j].li))
       => \A p \in DOMAIN files : Len(ChunksOf(p, i)) = 0 \/ Len(ChunksOf(p, j)) = 0
  /\ \A c \in Callers :
       (/\ pc[c] \in Writing /\ calls[cur[c]].res = "run"
        /\ calls[cur[c]].before \notin {"", devices[Key(c)].fname}
        /\ ~(calls[cur[c]].tried /\ ~calls[cur[c]].linked))
       => LinkIsCurrent(calls[cur[c]].li)

\* two completed writes of one device on different days, the second one
\* having replaced the link
C1_Witness ==
  \E i, j \in DOMAIN calls :
    /\ calls[i].turn < calls[j].turn /\ Complete(i) /\ Complete(j)
    /\ calls[i].li.DeviceIDSafe = "d1" /\ calls[j].li.DeviceIDSafe = "d1"
    /\ ~SameDay(calls[i].li, calls[j].li)
    /\ calls[j].tried /\ calls[j].linked
    /\ LinkIsCurrent(calls[j].li)
    /\ Cardinality(DOMAIN files) = 2

\* C2: the locked part of one WriteLine never overlaps that of another, what a
\* call writes to a file is never split by bytes of another call, and a call
\* whose writes all succeeded has written exactly its record and a newline.
C2_NoInterleaving ==
  /\ \A c, d \in Callers : (pc[c] \in Locked /\ pc[d] \in Locked) => c = d
  /\ \A c \in Callers : pc[c] \in Locked => mu = c
  /\ \A p \in DOMAIN files : \A a, b, m \in 1..Len(files[p]) :
       (a < m /\ m < b /\ files[p][a].by = files[p][b].by)
       => files[p][m].by = files[p][a].by
  /\ \A i \in DOMAIN calls : \A p \in DOMAIN files :
       (Complete(i) /\ Len(ChunksOf(p, i)) > 0)
       => Concat(ChunksOf(p, i)) = Rendered(calls[i].li)

\* one caller in the middle of its record while the other waits for the lock,
\* both writing to the file that already holds a complete line
C2_Witness ==
  \E c, d \in Callers :
    /\ pc[c] = "exec" /\ calls[cur[c]].wrote = 1
    /\ pc[d] = "lock"
    /\ calls[cur[d]].li.DeviceIDSafe = calls[cur[c]].li.DeviceIDSafe
    /\ SameDay(calls[cur[d]].li, calls[cur[c]].li)
    /\ \E i \in DOMAIN calls : Complete(i) /\ calls[i].li = calls[cur[c]].li

\* the calls of the device of call j that entered WriteLine before it
Earlier(j) ==
  {i \in DOMAIN calls : /\ calls[i].turn > 0 /\ calls[i].turn < calls[j].turn
                        /\ calls[i].li.DeviceIDSafe = calls[j].li.DeviceIDSafe}

\* the call j is past Open, or has returned from WriteLine
PastOpen(j) ==
  \/ calls[j].res \in {"done", "dropped"}
  \/ \E c \in Callers : cur[c] = j /\ pc[c] \in Writing

\* C3: a line whose Open failed is in no file; the lock is released after it;
\* the next WriteLine of that device does not take the fast path but creates
\* the directory and opens the file again, and when that succeeds and its
\* writes succeed its line is in the file.
C3_DropAndRetry ==
  /\ \A i \in DOMAIN calls :
       calls[i].res = "dropped" => \A p \in DOMAIN files : Len(ChunksOf(p, i)) = 0
  /\ \A i \in DOMAIN calls :
       (calls[i].res = "dropped" /\ calls[i].err = "")
       => devices[calls[i].li.DeviceIDSafe].fd = NilFd
          \/ \E j \in DOMAIN calls : j # i /\ i \in Earlier(j) /\ PastOpen(j) /\ ~calls[j].fast
  /\ \A j \in DOMAIN calls :
       (/\ calls[j].err = "" /\ PastOpen(j) /\ Earlier(j) # {}
        /\ calls[CHOOSE i \in Earlier(j) :
                   \A k \in Earlier(j) : calls[k].turn <= calls[i].turn].res = "dropped")
       => /\ ~calls[j].fast
          /\ Complete(j) => \E p \in DOMAIN files :
                              Concat(ChunksOf(p, j)) = Rendered(calls[j].li)
  /\ mu # NoCaller => pc[mu] \in Locked

\* a rotation whose Open failed, followed by a completed write of the same
\* device and day that opened the file again
C3_Witness ==
  \E h, i, j \in DOMAIN calls :
    /\ calls[h].turn < calls[i].turn /\ calls[i].turn < calls[j].turn
    /\ Complete(h) /\ calls[i].res = "dropped" /\ Complete(j)
    /\ calls[h].li.DeviceIDSafe = calls[i].li.DeviceIDSafe
    /\ calls[i].li = calls[j].li
    /\ ~SameDay(calls[h].li, calls[i].li)
    /\ ~calls[j].fast
    /\ \E p \in DOMAIN files : Concat(files[p]) = Rendered(calls[j].li)

\* C4: the sanitized device id is a single path component, and every path
\* created, opened or removed lies beneath <logDir>/<deviceIdSafe>/.
C4_PathsBeneathDevice ==
  /\ \A i \in DOMAIN calls : calls[i].err = "" =>
       /\ calls[i].li.DeviceIDSafe \notin {"", ".", ".."}
       /\ Index(calls[i].li.DeviceIDSafe, "/") = 0
  /\ \A p \in DOMAIN files \cup DOMAIN links \cup removed :
       /\ Beneath(p, flagLogDir)
       /\ \E i \in DOMAIN calls :
            calls[i].err = "" /\ Beneath(p, flagLogDir \o "/" \o calls[i].li.DeviceIDSafe)

\* C5 as stated: after every WriteLine that wrote its line and in which link
\* creation did not fail, fast path included, the link names the current file.
C5_LinkOnEveryWrite ==
  \A c \in Callers :
    (/\ pc[c] = "unlock" /\ calls[cur[c]].res = "run"
     /\ ~(calls[cur[c]].tried /\ ~calls[cur[c]].linked))
    => LinkIsCurrent(calls[cur[c]].li)

\* C5 as the code has it: the link is looked at only when Open opens a file;
\* while such a WriteLine is finishing, and link creation did not fail, the
\* link names the file just opened.  On the fast path nothing is looked at.
C5_LinkOnReopen ==
  /\ \A c \in Callers :
       (/\ pc[c] \in Writing /\ calls[cur[c]].res = "run" /\ ~calls[cur[c]].fast
        /\ ~(calls[cur[c]].tried /\ ~calls[cur[c]].linked))
       => LinkIsCurrent(calls[cur[c]].li)
  /\ \A i \in DOMAIN calls : calls[i].fast => ~calls[i].tried

\* a write that opened the next day's file and put the link right after the
\* link of the previous day could not be created
C5_Witness ==
  \E c \in Callers : \E i \in DOMAIN calls :
    /\ pc[c] = "unlock" /\ calls[i].turn < calls[cur[c]].turn
    /\ calls[i].tried /\ ~calls[i].linked /\ calls[i].res = "done"
    /\ calls[i].li.DeviceIDSafe = calls[cur[c]].li.DeviceIDSafe
    /\ ~calls[cur[c]].fast /\ calls[cur[c]].linked
    /\ LinkIsCurrent(calls[cur[c]].li)

\* the calls that have entered WriteLine
Entered == {i \in DOMAIN calls : calls[i].turn > 0}

\* the device's descriptor is open on the file its fname names
HandleOpen(d) ==
  /\ devices[d].fd \in DOMAIN fds
  /\ fds[devices[d].fd].open
  /\ fds[devices[d].fd].name = Clean(devices[d].fname)
  /\ fds[devices[d].fd].name \in DOMAIN files

\* C12: a step never shortens, rewrites or deletes a log file: what a file held
\* before the step is a prefix of what it holds after it; and the only paths
\* ever passed to os.Remove are "latest" link paths of devices written to.
C12_AppendOnly ==
  [][/\ \A p \in DOMAIN files :
          /\ p \in DOMAIN files'
          /\ Len(files'[p]) >= Len(files[p])
          /\ SubSeq(files'[p], 1, Len(files[p])) = files[p]
     /\ \A p \in removed' :
          \E i \in DOMAIN calls' : calls'[i].err = "" /\ p = LatestPath(calls'[i].li)]_vars

\* a device rotated to the next day and back: the first day's file holds the
\* first and the third line, the second day's file the second, and the link
\* was removed and recreated on the way
C12_Witness ==
  \E h, i, j \in DOMAIN calls :
    /\ calls[h].turn < calls[i].turn /\ calls[i].turn < calls[j].turn
    /\ Complete(h) /\ Complete(i) /\ Complete(j)
    /\ calls[h].li = calls[j].li
    /\ calls[h].li.DeviceIDSafe = calls[i].li.DeviceIDSafe
    /\ ~SameDay(calls[h].li, calls[i].li)
    /\ removed # {}
    /\ \E p \in DOMAIN files :
         Concat(files[p]) = Rendered(calls[h].li) \o Rendered(calls[j].li)

\* C14: a WriteLine whose link maintenance replaced the link, or failed to, is
\* not dropped: while it writes the handle is open on the file named by
\* fname, and when its writes succeed its line is in that file.
C14_LinkFailureNotFatal ==
  /\ \A i \in DOMAIN calls : calls[i].tried => calls[i].res \in {"run", "done"}
  /\ \A c \in Callers :
       (pc[c] \in Writing /\ calls[cur[c]].tried) => HandleOpen(Key(c))
  /\ \A i \in DOMAIN calls :
       (calls[i].tried /\ Complete(i))
       => \E p \in DOMAIN files : Concat(ChunksOf(p, i)) = Rendered(calls[i].li)

\* a completed write whose symlink could not be created: no link, the line
\* in the file
C14_Witness ==
  \E i \in DOMAIN calls :
    /\ calls[i].tried /\ ~calls[i].linked /\ Complete(i)
    /\ faults = 1
    /\ links = << >>
    /\ \E p \in DOMAIN files : Concat(files[p]) = Rendered(calls[i].li)

\* the file name Open renders for the event li
FileName(li) ==
  flagLogDir \o "/" \o li.DeviceIDSafe \o "/" \o li.DeviceIDSafe \o "."
    \o li.Year \o li.Month \o li.Day \o ".log"

\* C15 as stated: when WriteLine returns after a failed MkdirAll or OpenFile
\* the handle's fname is what it was before the call.
C15_NameKept ==
  \A c \in Callers :
    (pc[c] = "unlock" /\ calls[cur[c]].res = "dropped")
    => devices[Key(c)].fname = calls[cur[c]].before

\* C15 as the code has it: when WriteLine returns after a failed MkdirAll or
\* OpenFile the handle's fname is the name rendered for the failed event and
\* its descriptor is nil; the nil descriptor is what makes the next call
\* open again.
C15_NameSetBeforeOpen ==
  \A c \in Callers :
    (pc[c] = "unlock" /\ calls[cur[c]].res = "dropped")
    => /\ devices[Key(c)].fname = FileName(calls[cur[c]].li)
       /\ devices[Key(c)].fd = NilFd

\* a rotation that failed: the handle names the new day's file, not the
\* previous day's, and has no descriptor
C15_Witness ==
  \E c \in Callers :
    /\ pc[c] = "unlock" /\ calls[cur[c]].res = "dropped"
    /\ calls[cur[c]].before \notin {"", devices[Key(c)].fname}
    /\ devices[Key(c)].fname = FileName(calls[cur[c]].li)
    /\ devices[Key(c)].fd = NilFd

\* C16: a WriteLine with a failed write leaves nothing of its line in the file
\* and leaves the handle without a descriptor, so that the next WriteLine of
\* the device opens again.
C16_WriteFailureHandled ==
  \A c \in Callers :
    (pc[c] = "unlock" /\ calls[cur[c]].werr)
    => /\ \A p \in DOMAIN files : Len(ChunksOf(p, cur[c])) = 0
       /\ devices[Key(c)].fd = NilFd

\* C19: whenever the mutex is free the device map has exactly the devices of
\* the calls that entered WriteLine, a handle's descriptor is open on the
\* file its fname names, no two handles share a descriptor, and every
\* descriptor ever opened is the current one of a handle or is closed.
C19_HandleConsistency ==
  mu = NoCaller =>
    /\ DOMAIN devices = {calls[i].li.DeviceIDSafe : i \in Entered}
    /\ \A d \in DOMAIN devices : devices[d].fd # NilFd => HandleOpen(d)
    /\ \A d, e \in DOMAIN devices :
         (devices[d].fd # NilFd /\ devices[d].fd = devices[e].fd) => d = e
    /\ \A n \in DOMAIN fds :
         fds[n].open => \E d \in DOMAIN devices : devices[d].fd = n

\* two devices with open handles after one of them rotated: three
\* descriptors were opened and one of them is closed
C19_Witness ==
  /\ mu = NoCaller
  /\ Cardinality(DOMAIN devices) = 2
  /\ \A d \in DOMAIN devices : devices[d].fd # NilFd
  /\ Len(fds) = 3
  /\ Cardinality({n \in DOMAIN fds : fds[n].open}) = 2

\* C20: in every file the writes are in the order in which their calls took
\* the mutex, and a call whose writes succeeded has its record in exactly one
\* file, exactly once.
C20_OrderPreserved ==
  /\ \A p \in DOMAIN files : \A a, b \in 1..Len(files[p]) :
       a < b => calls[files[p][a].by].turn <= calls[files[p][b].by].turn
  /\ \A i \in DOMAIN calls : Complete(i) =>
       /\ Cardinality({p \in DOMAIN files : Len(ChunksOf(p, i)) > 0}) = 1
       /\ \A p \in DOMAIN files :
            Len(ChunksOf(p, i)) > 0 =>
              /\ Len(ChunksOf(p, i)) = Len(recordTmpl) + 1
              /\ Concat(ChunksOf(p, i)) = Rendered(calls[i].li)

\* two lines of one device and day in their file in lock order, written by
\* calls that were made in the opposite order, with a write of another
\* device between them
C20_Witness ==
  \E h, i, j \in DOMAIN calls :
    /\ calls[h].turn = 1 /\ calls[i].turn = 2 /\ calls[j].turn = 3
    /\ j < h
    /\ Complete(h) /\ Complete(i) /\ Complete(j)
    /\ calls[h].li.DeviceIDSafe = calls[j].li.DeviceIDSafe
    /\ calls[h].li.DeviceIDSafe # calls[i].li.DeviceIDSafe
    /\ \E p \in DOMAIN files :
         /\ Len(files[p]) = 2 * (Len(recordTmpl) + 1)
         /\ files[p][1].by = h
         /\ files[p][Len(files[p])].by = j

\* C18: a caller that is not inside WriteLine does not hold the mutex, a
\* line that fails to parse leaves its caller in the ingestion loop, and
\* every caller that has entered WriteLine, waiting for the mutex or holding
\* it, returns from it, whatever failed on the way.
C18_NoStall ==
  /\ [](\A c \in Callers : pc[c] \in {"idle", "lock"} => mu # c)
  /\ [](\A i \in DOMAIN calls :
          calls[i].err # "" => /\ calls[i].res = "invalid"
                               /\ \A c \in Callers : cur[c] # i)
  /\ \A c \in Callers : (pc[c] # "idle") ~> (pc[c] = "idle")

\* a caller back in its loop, the mutex free, after its WriteLine was dropped
\* while the other caller was waiting for the mutex, and that caller done too
C18_Witness ==
  /\ mu = NoCaller
  /\ \A c \in Callers : pc[c] = "idle"
  /\ \E i, j \in DOMAIN calls :
       /\ calls[i].res = "dropped" /\ calls[j].res = "done"
       /\ calls[i].turn = 1 /\ calls[j].turn = 2 /\ j < i
  /\ \E i \in DOMAIN calls : calls[i].res = "invalid"

(***************************************************************************)
(* Properties of startup and of the ingestion loop, checked under SpecLoop. *)
(***************************************************************************)
\* the fields of LineInfo
LineInfoFields ==
  {"Src", "Timestamp", "DeviceID", "SeqNum", "UptimeMs", "FD", "Level", "Msg",
   "TimestampStr", "DeviceIDSafe", "Year", "Month", "Day", "LevelChar"}

\* C11: once startup has succeeded the record template names only fields an
\* event has, and every line in a file is a completely rendered record: one
\* write per template node and the newline.
C11_RejectedAtStartup ==
  /\ phase = "serving" =>
       \A n \in DOMAIN TmplNodes(format) :
         /\ TmplNodes(format)[n].kind # "error"
         /\ TmplNodes(format)[n].kind = "field" => TmplNodes(format)[n].val \in LineInfoFields
  /\ \A k \in DOMAIN handed : \A p \in DOMAIN files :
       Len(ChunksOf(p, k)) > 0 => Len(ChunksOf(p, k)) = Len(TmplNodes(format)) + 1

\* the records of a datagram: its pieces between newlines, each without its
\* trailing carriage return
RecordsOf(d) ==
  LET parts == Split(d, "\n")
      recs == IF parts[Len(parts)] = "" THEN SubSeq(parts, 1, Len(parts) - 1) ELSE parts
  IN [n \in DOMAIN recs |->
        IF Len(recs[n]) > 0 /\ At(recs[n], Len(recs[n])) = "\r"
          THEN SubSeq(recs[n], 1, Len(recs[n]) - 1)
        ELSE recs[n]]

\* the lines of the datagram n handed to processLine, in order
HandedOf(n) ==
  LET sel == SelectSeq(handed, LAMBDA h : h.pkt = n)
  IN [k \in DOMAIN sel |-> sel[k].line]

\* C17: when the loop is done with a datagram, the lines handed to the parser
\* are the trimmed records of the datagram, each once and in order, and
\* every one of them that parsed has been written to the file sink.
C17_EveryRecordParsed ==
  (phase = "serving" /\ Len(pkts) > 0 /\ Len(buf) <= 10) =>
    /\ HandedOf(Len(pkts)) = RecordsOf(pkts[Len(pkts)])
    /\ \A k \in DOMAIN handed :
         handed[k].err = "" => \E p \in DOMAIN files : Len(ChunksOf(p, k)) > 0

(***************************************************************************)
(* Properties of the parser, checked under SpecParse.                      *)
(***************************************************************************)
\* the values of each field that are valid beyond dispute, and the uptime
\* values that are no number at all
GoodIds == {"d1", "my*dev!", "..", "a/b", Repeat("a", 50)}
GoodSeqs == {"7", "007", "18446744073709551615"}
GoodUps == {"12.5", "1.001", "1.0006", "0.0004", "0", "3", "2."}
BadUps == {"x", "", "2.5.1"}
GoodFds == {"1", "03", "4294967295"}
GoodLvls == {ToDec(n) : n \in 0..MaxLevel} \cup {"004"}

Valid(f) ==
  /\ f.id \in GoodIds /\ f.seq \in GoodSeqs /\ f.up \in GoodUps
  /\ f.fd \in GoodFds /\ f.lvl \in GoodLvls

\* the error of the first invalid field, "" when there is none
FirstError(f) ==
  IF f.id \notin GoodIds THEN "invalid device id"
  ELSE IF f.seq \notin GoodSeqs THEN "invalid seqnum"
  ELSE IF f.up \notin GoodUps THEN "invalid uptime"
  ELSE IF f.fd \notin GoodFds THEN "invalid fd"
  ELSE IF f.lvl \notin GoodLvls THEN "invalid level"
  ELSE ""

HasBar(l) == \E i \in 1..Len(l) : At(l, i) = "|"

\* the number of spaces before the first '|' of l
HeaderSpaces(l) ==
  Cardinality({i \in 1..Len(l) : At(l, i) = " " /\ \A j \in 1..i : At(l, j) # "|"})

\* C6: a line without '|' gives the missing-delimiter error; otherwise a
\* header that does not have exactly 5 space-separated fields gives the
\* malformed-header error; otherwise the first invalid field, in the order
\* device id, sequence number, uptime, fd, level, decides the error; the
\* seven errors are pairwise distinct.
C6_ErrorOrder ==
  /\ Cardinality({ErrMissingDelimiter, ErrMalformedHeader, ErrInvalidDeviceId,
                  ErrInvalidSeqNum, ErrInvalidUptime, ErrInvalidFD,
                  ErrInvalidLevel}) = 7
  /\ parsed # {} =>
       /\ ~HasBar(line) => parsed = Failure(ErrMissingDelimiter)
       /\ (HasBar(line) /\ HeaderSpaces(line) # 4) => parsed = Failure(ErrMalformedHeader)
       /\ \A f \in ParseFields :
            (line = Record(f) /\ (f.up \in GoodUps \cup BadUps
                                   \/ f.id \notin GoodIds \/ f.seq \notin GoodSeqs))
            => IF FirstError(f) = "" THEN \A r \in parsed : r.err = ""
               ELSE /\ parsed = Failure(FirstError(f))
                    /\ FirstError(f) \in {ErrInvalidDeviceId, ErrInvalidSeqNum,
                                           ErrInvalidUptime, ErrInvalidFD, ErrInvalidLevel}

\* a header whose sequence number, uptime, fd and level are all invalid is
\* reported for its sequence number
C6_Witness ==
  /\ line = "d1 -1 x z q|up"
  /\ parsed = {[err |-> "invalid seqnum", li |-> NoLine]}

\* the numeric value of a valid unsigned field
NumValue(x) ==
  CASE x = "007" -> "7"
    [] x = "03" -> "3"
    [] x = "004" -> "4"
    [] OTHER -> x

\* the id with every byte outside the allow-set replaced by '_'
SafeId(id) ==
  CASE id = "my*dev!" -> "my_dev_"
    [] id = "a/b" -> "a_b"
    [] OTHER -> id

\* C7: a valid record parses; the event has the id verbatim, the numeric
\* values of seq, fd and level, the message after the first '|' unchanged,
\* the given source address and receive time, and the sanitized id.
C7_FieldsVerbatim ==
  \A f \in ParseFields :
    (line = Record(f) /\ parsed # {} /\ Valid(f))
    => \A r \in parsed :
         /\ r.err = ""
         /\ r.li.DeviceID = f.id
         /\ r.li.SeqNum = NumValue(f.seq)
         /\ r.li.FD = NumValue(f.fd)
         /\ r.li.Level = NumValue(f.lvl)
         /\ r.li.Msg = f.msg
         /\ r.li.Src = SrcAddr
         /\ r.li.Timestamp = ts
         /\ r.li.DeviceIDSafe = SafeId(f.id)

\* the record of device "my*dev!" with a message holding a second '|'
C7_Witness ==
  /\ line = "my*dev! 7 12.5 1 2|a|b c"
  /\ \E r \in parsed :
       /\ r.li.DeviceID = "my*dev!" /\ r.li.DeviceIDSafe = "my_dev_"
       /\ r.li.Msg = "a|b c"

\* up * 1000 rounded to the nearest integer, for up = "<int>[.<frac>]"
RoundMs(up) ==
  LET dot == Index(up, ".")
      int == IF dot = 0 THEN up ELSE SubSeq(up, 1, dot - 1)
      frac == (IF dot = 0 THEN "" ELSE SubSeq(up, dot + 1, Len(up))) \o "0000"
      ms == Canon("0" \o int \o SubSeq(frac, 1, 3))
  IN IF At(frac, 4) \in {"5", "6", "7", "8", "9"} THEN AddSmall(ms, 1) ELSE ms

\* C8: for a valid record with a non-negative decimal uptime up, the event
\* has uptimeMs = round(up * 1000).
C8_UptimeRounded ==
  \A f \in ParseFields :
    (line = Record(f) /\ parsed # {} /\ Valid(f))
    => \A r \in parsed : r.err = "" /\ r.li.UptimeMs = RoundMs(f.up)

\* the level character of the level n
ExpectedLevelChar(n) ==
  IF n <= 4 THEN <<"E", "W", "I", "D", "V">>[n + 1]
  ELSE <<"0", "1", "2", "3", "4", "5", "6", "7", "8", "9">>[(n % 10) + 1]

\* C9: the level character of a parsed event is E, W, I, D, V for the levels
\* 0 to 4 and the decimal digit of level mod 10 for every other level.
C9_LevelChar ==
  \A r \in parsed : r.err = "" =>
    \A n \in 0..MaxLevel :
      r.li.Level = ToDec(n) => r.li.LevelChar = ExpectedLevelChar(n)

\* an event of level 17, with the level character "7"
C9_Witness ==
  /\ line = "d1 7 12.5 1 17|up"
  /\ \E r \in parsed : r.li.Level = "17" /\ r.li.LevelChar = "7"

\* C10: a record with a valid id and sequence number whose uptime is negative
\* or no decimal number gives the invalid-uptime error and no event.
C10_UptimeRejected ==
  \A f \in ParseFields :
    (/\ line = Record(f) /\ parsed # {}
     /\ f.id \in GoodIds /\ f.seq \in GoodSeqs
     /\ f.up \in BadUps \cup {"-1.5", "-0.0001", "nan", "inf"})
    => parsed = Failure(ErrInvalidUptime)

\* every string of 1 to 3 of these bytes, safe and unsafe
IdBytes == {"a", "Z", "7", "_", ".", "*", "/", "\\"}
ShortIds == {x \o y \o z : x \in IdBytes, y, z \in IdBytes \cup {""}}

\* C13: filtering a filtered device id changes nothing, and the filtered id
\* is as long as the id: for every short id, and for the ids the parser
\* accepted.
C13_SanitizeIdempotent ==
  /\ \A x \in ShortIds :
       /\ Sanitize(Sanitize(x)) = Sanitize(x)
       /\ Len(Sanitize(x)) = Len(x)
  /\ \A f \in ParseFields :
       (line = Record(f) /\ f.id \in GoodIds)
       => \A r \in parsed : r.err = "" =>
            /\ Sanitize(r.li.DeviceIDSafe) = r.li.DeviceIDSafe
            /\ Sanitize(Sanitize(f.id)) = Sanitize(f.id)
            /\ Len(r.li.DeviceIDSafe) = Len(f.id)

\* the id "a/b", filtered to "a_b", which the filter leaves alone
C13_Witness ==
  /\ line = "a/b 7 12.5 1 2|up"
  /\ \E r \in parsed :
       /\ r.li.DeviceIDSafe = "a_b"
       /\ Sanitize(r.li.DeviceIDSafe) = "a_b"

====
